---- MODULE Spec2Model ----
(***************************************************************************)
(* Bus ticket booking and QR validation (ticket_gui_db.py).                *)
(*                                                                         *)
(* Texts are sequences of one-character strings, so that the f-string that *)
(* builds the QR content and the split/replace that reads it back are      *)
(* modelled character by character.  The two SQLite tables are sequences   *)
(* of rows in insertion order.  SQLite values that may be INTEGER or TEXT  *)
(* (the booking_id column of validation_logs) are records                  *)
(* [type, int, text].                                                      *)
(*                                                                         *)
(* The program is single-threaded and every dialog is modal: a handler     *)
(* runs from the click to its return with no other handler in between.     *)
(* Each handler is written as the blocking read of its surroundings (the   *)
(* entry and list box, the file dialog and decoder, the camera), then its  *)
(* body, then the modal messagebox it ends with; pc keeps every other      *)
(* handler out until the messagebox is closed.                             *)
(***************************************************************************)
EXTENDS Integers, Sequences, FiniteSets, TLC

VARIABLES
    bookings,      \* rows of table bookings, in insertion order
    logs,          \* rows of table validation_logs, in insertion order
    sqlite_seq,    \* sqlite_sequence: AUTOINCREMENT counter of each table
    issued,        \* every booking id handed out by book_ticket, oldest first
    qr,            \* the QR content of the ticket window opened last
    msg,           \* the messagebox on screen
    pc,            \* where the running handler stands; "idle" in tk's mainloop
    local,         \* what the running handler has read from its surroundings
    startups       \* how many times the script has been started again

vars == <<bookings, logs, sqlite_seq, issued, qr, msg, pc, local, startups>>

-----------------------------------------------------------------------------
(* Bounds of the model *)

MaxBookings == 2
MaxLogs == 2
MaxCodes == 2
MaxStartups == 1

-----------------------------------------------------------------------------
(* Python str operations, on sequences of characters *)

Marker == <<"B", "o", "o", "k", "i", "n", "g", "I", "D", ":">>

Bar == <<"|">>

Digits == <<"0", "1", "2", "3", "4", "5", "6", "7", "8", "9">>

StartsAt(s, sub, i) ==
    /\ i + Len(sub) - 1 <= Len(s)
    /\ SubSeq(s, i, i + Len(sub) - 1) = sub

\* s.find(sub, i), 1-based; 0 when sub does not occur at or after i
RECURSIVE Find(_, _, _)
Find(s, sub, i) ==
    IF i + Len(sub) - 1 > Len(s) THEN 0
    ELSE IF StartsAt(s, sub, i) THEN i
    ELSE Find(s, sub, i + 1)

\* sub in s
In(sub, s) == Find(s, sub, 1) # 0

\* s.split(sep)[0]
SplitFirst(s, sep) ==
    LET i == Find(s, sep, 1)
    IN  IF i = 0 THEN s ELSE SubSeq(s, 1, i - 1)

\* s.replace(old, new): every non-overlapping occurrence, left to right
RECURSIVE Replace(_, _, _)
Replace(s, old, new) ==
    LET i == Find(s, old, 1)
    IN  IF i = 0 THEN s
        ELSE SubSeq(s, 1, i - 1) \o new
                 \o Replace(SubSeq(s, i + Len(old), Len(s)), old, new)

RECURSIVE LStrip(_)
LStrip(s) ==
    IF s # <<>> /\ Head(s) = " " THEN LStrip(Tail(s)) ELSE s

RECURSIVE RStrip(_)
RStrip(s) ==
    IF s # <<>> /\ s[Len(s)] = " " THEN RStrip(SubSeq(s, 1, Len(s) - 1)) ELSE s

\* s.strip()
Strip(s) == RStrip(LStrip(s))

\* str(n) / f"{n}" of a non-negative int
RECURSIVE IntToStr(_)
IntToStr(n) ==
    IF n < 10 THEN <<Digits[n + 1]>>
    ELSE IntToStr(n \div 10) \o <<Digits[(n % 10) + 1]>>

-----------------------------------------------------------------------------
(* SQLite value conversions *)

IsDigit(c) == \E d \in 1..10 : Digits[d] = c

DigitVal(c) == (CHOOSE d \in 1..10 : Digits[d] = c) - 1

RECURSIVE DigitsVal(_)
DigitsVal(s) ==
    IF s = <<>> THEN 0
    ELSE 10 * DigitsVal(SubSeq(s, 1, Len(s) - 1)) + DigitVal(s[Len(s)])

\* Does a TEXT value look like an integer literal (blanks around it allowed)?
\* The texts of this model hold no sign, point or exponent.
LooksNumeric(t) ==
    /\ Strip(t) # <<>>
    /\ \A i \in 1..Len(Strip(t)) : IsDigit(Strip(t)[i])

SqlInteger(n) == [type |-> "integer", int |-> n, text |-> <<>>]

SqlText(t) == [type |-> "text", int |-> 0, text |-> t]

\* INTEGER/NUMERIC affinity applied to a bound TEXT parameter
Affinity(t) ==
    IF LooksNumeric(t) THEN SqlInteger(DigitsVal(Strip(t))) ELSE SqlText(t)

-----------------------------------------------------------------------------
(* The route catalog (raw_bus_data.csv) and the passenger entry *)

routes_df == <<
    [BusNo |-> <<"1", "2", "A">>, Source |-> <<"X">>, Destination |-> <<"Y">>,
     Time |-> <<"0", "9", ":", "0", "0">>, Fare |-> <<"5", "0", ".", "0">>],
    [BusNo |-> <<"7">>, Source |-> <<"P", "|">> \o Marker \o <<"1">>,
     Destination |-> <<"Q">>,
     Time |-> <<"1", "0", ":", "3", "0">>, Fare |-> <<"7", "5", ".", "5">>] >>

\* route_box.curselection(): () or (i,), i counted from 0
Selections == {<<>>} \cup {<<i - 1>> : i \in 1..Len(routes_df)}

\* what entry_name may hold
Names == { <<>>, <<" ">>, <<" ", "A", "|">> \o Marker \o <<"1", " ">> }

NoBox == [kind |-> "None", id |-> <<>>]

NoLocal == [op |-> "none"]

-----------------------------------------------------------------------------
(* Book Ticket *)

\* as Rejected, but the passenger name is not looked at
RejectedNoName(passenger, selected) == selected = <<>>

\* the check of line 65
Rejected(passenger, selected) == passenger = <<>> \/ selected = <<>>

\* f"{bus_no}: {src}-{dest}"
RouteStr(route) ==
    route.BusNo \o <<":", " ">> \o route.Source \o <<"-">> \o route.Destination

\* as QrData, but the passenger field is written before the id field
QrDataPassengerFirst(booking_id, passenger, route_str, time, fare) ==
    <<"P", "a", "s", "s", "e", "n", "g", "e", "r", ":">> \o passenger
        \o <<"|">> \o Marker \o IntToStr(booking_id)
        \o <<"|", "R", "o", "u", "t", "e", ":">> \o route_str
        \o <<"|", "T", "i", "m", "e", ":">> \o time
        \o <<"|", "F", "a", "r", "e", ":">> \o fare

\* the QR content of line 78
QrData(booking_id, passenger, route_str, time, fare) ==
    Marker \o IntToStr(booking_id)
        \o <<"|", "P", "a", "s", "s", "e", "n", "g", "e", "r", ":">> \o passenger
        \o <<"|", "R", "o", "u", "t", "e", ":">> \o route_str
        \o <<"|", "T", "i", "m", "e", ":">> \o time
        \o <<"|", "F", "a", "r", "e", ":">> \o fare

\* INTEGER PRIMARY KEY AUTOINCREMENT: one more than the largest id the table
\* holds or sqlite_sequence remembers
NextId(ids, seq) ==
    LET used == ids \cup {seq}
    IN  (CHOOSE m \in used : \A n \in used : n <= m) + 1

InsertBooking(rows, seq, passenger, route_str, time, fare) ==
    Append(rows, [id |-> NextId({rows[i].id : i \in DOMAIN rows}, seq),
                  passenger |-> passenger, route |-> route_str,
                  time |-> time, fare |-> fare, status |-> "Booked"])

\* lines 63-64: the handler reads the entry and the list box
book_read(entry, selected) ==
    /\ pc = "idle"
    /\ pc' = "book"
    /\ local' = [op |-> "book", entry |-> entry, selected |-> selected]
    /\ UNCHANGED <<bookings, logs, sqlite_seq, issued, qr, msg, startups>>

\* lines 63-92
book_ticket ==
    /\ pc = "book"
    /\ LET passenger == Strip(local.entry)
           selected == local.selected
       IN  IF Rejected(passenger, selected)
           THEN /\ msg' = [kind |-> "Warning", id |-> <<>>]
                /\ UNCHANGED <<bookings, logs, sqlite_seq, issued, qr>>
           ELSE LET route == routes_df[selected[1] + 1]
                    route_str == RouteStr(route)
                    new_rows == InsertBooking(bookings, sqlite_seq.bookings,
                                    passenger, route_str, route.Time, route.Fare)
                    booking_id == new_rows[Len(new_rows)].id
                IN  /\ Len(bookings) < MaxBookings
                    /\ bookings' = new_rows
                    /\ sqlite_seq' = [sqlite_seq EXCEPT !.bookings = booking_id]
                    /\ issued' = Append(issued, booking_id)
                    /\ qr' = QrData(booking_id, passenger, route_str,
                                    route.Time, route.Fare)
                    /\ msg' = [kind |-> "Booked", id |-> IntToStr(booking_id)]
                    /\ UNCHANGED logs
    /\ pc' = "box"
    /\ local' = NoLocal
    /\ UNCHANGED startups

-----------------------------------------------------------------------------
(* Validation: lines 116-120 and 135-139 *)

\* as IsTicket, but any non-empty text is taken for a ticket
IsTicketNonEmpty(qr_text) == qr_text # <<>>

\* "BookingID:" in qr_text (lines 113 and 134)
IsTicket(qr_text) == In(Marker, qr_text)

\* qr_text.split("|")[0].replace("BookingID:", "")
BookingIdOf(qr_text) == Replace(SplitFirst(qr_text, Bar), Marker, <<>>)

\* as UpdateStatus, but the status is flipped instead of set
UpdateStatusToggle(rows, booking_id) ==
    [i \in DOMAIN rows |->
        IF Affinity(booking_id) = SqlInteger(rows[i].id)
        THEN [rows[i] EXCEPT !.status =
                 IF @ = "Booked" THEN "Validated" ELSE "Booked"]
        ELSE rows[i]]

\* as UpdateStatus, but without the WHERE clause
UpdateStatusAllRows(rows, booking_id) ==
    [i \in DOMAIN rows |-> [rows[i] EXCEPT !.status = "Validated"]]

\* UPDATE bookings SET status='Validated' WHERE id=?
UpdateStatus(rows, booking_id) ==
    [i \in DOMAIN rows |->
        IF Affinity(booking_id) = SqlInteger(rows[i].id)
        THEN [rows[i] EXCEPT !.status = "Validated"]
        ELSE rows[i]]

\* as add_log, but a booking that already has a log row gets no second one
add_log_once(rows, seq, booking_id, method) ==
    IF \E i \in DOMAIN rows : rows[i].booking_id = Affinity(booking_id)
    THEN rows
    ELSE Append(rows, [log_id |-> seq + 1,
                       booking_id |-> Affinity(booking_id),
                       method |-> method])

\* INSERT INTO validation_logs (booking_id, method, timestamp); the timestamp
\* column is the wall clock's and is left out of the rows
add_log(rows, seq, booking_id, method) ==
    Append(rows, [log_id |-> NextId({rows[i].log_id : i \in DOMAIN rows}, seq),
                  booking_id |-> Affinity(booking_id),
                  method |-> method])

\* the database after one validation of qr_text
Validate(db, qr_text, method) ==
    LET booking_id == BookingIdOf(qr_text)
        new_logs == add_log(db.logs, db.seq, booking_id, method)
    IN  [bookings |-> UpdateStatus(db.bookings, booking_id),
         logs |-> new_logs,
         seq |-> IF new_logs = <<>> THEN db.seq
                 ELSE new_logs[Len(new_logs)].log_id]

RECURSIVE ValidateAll(_, _, _)
ValidateAll(db, texts, method) ==
    IF texts = <<>> THEN db
    ELSE ValidateAll(Validate(db, Head(texts), method), Tail(texts), method)

Db == [bookings |-> bookings, logs |-> logs, seq |-> sqlite_seq.validation_logs]

Commit(db) ==
    /\ bookings' = db.bookings
    /\ logs' = db.logs
    /\ sqlite_seq' = [sqlite_seq EXCEPT !.validation_logs = db.seq]

-----------------------------------------------------------------------------
(* What the QR codes put before the decoder may say *)

\* the ticket of the i-th booking in the table
Ticket(i) ==
    QrData(bookings[i].id, bookings[i].passenger, bookings[i].route,
           bookings[i].time, bookings[i].fare)

\* QR codes that book_ticket did not make
Crafted == { <<>>, <<"x">>, <<"1">>, <<"1", "|", "x">>,
             Marker \o <<"1">>,
             Marker \o <<"0", "1">>,
             Marker \o <<"x">>,
             <<"x", "|">> \o Marker \o <<"1">>,
             <<"x">> \o Marker \o <<"|", "1">>,
             Marker \o Marker \o <<"1">> }

\* a code in a picture: the ticket of a booking in the table, or (0) a QR
\* code that is no ticket
Code(k) == IF k = 0 THEN <<"x">> ELSE Ticket(k)

\* the codes pyzbar finds in one picture, in the order it reports them
Pictures ==
    LET shown == UNION {[1..n -> 0..Len(bookings)] : n \in 0..MaxCodes}
    IN  {[k \in DOMAIN p |-> Code(p[k])] : p \in shown}

ImageFiles == {<<t>> : t \in Crafted} \cup Pictures

-----------------------------------------------------------------------------
(* Validate from Image *)

\* lines 105-108: the file dialog returns and pyzbar decodes the picture
image_read(chosen, decoded) ==
    /\ pc = "idle"
    /\ pc' = "image"
    /\ local' = [op |-> "image", chosen |-> chosen, decoded |-> decoded]
    /\ UNCHANGED <<bookings, logs, sqlite_seq, issued, qr, msg, startups>>

\* lines 106-121
validate_from_image ==
    /\ pc = "image"
    /\ IF ~local.chosen
       THEN /\ pc' = "idle"
            /\ UNCHANGED <<bookings, logs, sqlite_seq, msg>>
       ELSE IF local.decoded = <<>>
       THEN /\ pc' = "box"
            /\ msg' = [kind |-> "NoQR", id |-> <<>>]
            /\ UNCHANGED <<bookings, logs, sqlite_seq>>
       ELSE LET qr_text == local.decoded[1]
            IN  IF ~IsTicket(qr_text)
                THEN /\ pc' = "box"
                     /\ msg' = [kind |-> "InvalidQR", id |-> <<>>]
                     /\ UNCHANGED <<bookings, logs, sqlite_seq>>
                ELSE /\ Len(logs) < MaxLogs
                     /\ Commit(Validate(Db, qr_text, "Image"))
                     /\ pc' = "box"
                     /\ msg' = [kind |-> "ValidatedImage",
                                id |-> BookingIdOf(qr_text)]
    /\ local' = NoLocal
    /\ UNCHANGED <<issued, qr, startups>>

-----------------------------------------------------------------------------
(* Validate via Webcam *)

\* as ScanFrame, but without the break of line 143
RECURSIVE ScanFrameNoBreak(_)
ScanFrameNoBreak(codes) ==
    IF codes = <<>> THEN <<>>
    ELSE IF IsTicket(Head(codes))
         THEN <<Head(codes)>> \o ScanFrameNoBreak(Tail(codes))
         ELSE ScanFrameNoBreak(Tail(codes))

\* the for loop of lines 132-143: the codes of one frame that get validated
RECURSIVE ScanFrame(_)
ScanFrame(codes) ==
    IF codes = <<>> THEN <<>>
    ELSE IF IsTicket(Head(codes)) THEN <<Head(codes)>>
    ELSE ScanFrame(Tail(codes))

\* lines 126-128: the handler opens the camera and enters the loop
webcam_open ==
    /\ pc = "idle"
    /\ pc' = "scan"
    /\ UNCHANGED <<bookings, logs, sqlite_seq, issued, qr, msg, local, startups>>

\* line 130, with the key waitKey will report for this frame (line 145)
webcam_read(ret, frame, quit) ==
    /\ pc = "scan"
    /\ pc' = "frame"
    /\ local' = [op |-> "webcam", ret |-> ret, frame |-> frame, quit |-> quit]
    /\ UNCHANGED <<bookings, logs, sqlite_seq, issued, qr, msg, startups>>

\* one turn of the while loop, and lines 146-152 when the loop is left
validate_via_webcam ==
    /\ pc = "frame"
    /\ IF ~local.ret
       THEN /\ pc' = "box"
            /\ msg' = [kind |-> "NoValidQR", id |-> <<>>]
            /\ UNCHANGED <<bookings, logs, sqlite_seq>>
       ELSE LET scanned == ScanFrame(local.frame)
                found == scanned # <<>>
            IN  /\ Len(logs) + Len(scanned) <= MaxLogs
                /\ Commit(ValidateAll(Db, scanned, "Webcam"))
                /\ IF local.quit \/ found
                   THEN /\ pc' = "box"
                        /\ msg' = IF found
                                  THEN [kind |-> "ValidatedWebcam",
                                        id |-> BookingIdOf(scanned[Len(scanned)])]
                                  ELSE [kind |-> "NoValidQR", id |-> <<>>]
                   ELSE /\ pc' = "scan"
                        /\ UNCHANGED msg
    /\ local' = NoLocal
    /\ UNCHANGED <<issued, qr, startups>>

\* the messagebox is closed and the handler returns to the mainloop
close_box ==
    /\ pc = "box"
    /\ pc' = "idle"
    /\ msg' = NoBox
    /\ UNCHANGED <<bookings, logs, sqlite_seq, issued, qr, local, startups>>

-----------------------------------------------------------------------------
(* Database Setup, lines 14-40 *)

EmptySeq == [bookings |-> 0, validation_logs |-> 0]

Init ==
    /\ bookings = <<>>
    /\ logs = <<>>
    /\ sqlite_seq = EmptySeq
    /\ issued = <<>>
    /\ qr = <<>>
    /\ msg = NoBox
    /\ pc = "idle"
    /\ local = NoLocal
    /\ startups = 0

\* the window is closed and the script is run again on the tickets.db it left
Startup ==
    /\ pc = "idle"
    /\ startups < MaxStartups
    /\ startups' = startups + 1
    /\ bookings' = <<>>
    /\ logs' = <<>>
    /\ sqlite_seq' = EmptySeq
    /\ qr' = <<>>
    /\ UNCHANGED <<issued, msg, pc, local>>

-----------------------------------------------------------------------------

BookRead ==
    /\ pc = "idle"
    /\ \E entry \in Names, selected \in Selections : book_read(entry, selected)

ImageRead ==
    /\ pc = "idle"
    /\ \/ image_read(FALSE, <<>>)
       \/ \E decoded \in ImageFiles : image_read(TRUE, decoded)

WebcamRead ==
    /\ pc = "scan"
    /\ \/ webcam_read(FALSE, <<>>, FALSE)
       \/ \E frame \in Pictures, quit \in BOOLEAN : webcam_read(TRUE, frame, quit)

Next ==
    \/ BookRead
    \/ book_ticket
    \/ ImageRead
    \/ validate_from_image
    \/ webcam_open
    \/ WebcamRead
    \/ validate_via_webcam
    \/ close_box

Spec == Init /\ [][Next]_vars

NextLife == Next \/ Startup

SpecLife == Init /\ [][NextLife]_vars

-----------------------------------------------------------------------------
(* Vocabulary of the properties, stated without the operators above *)

Rows(table) == {table[i] : i \in DOMAIN table}

\* the literal "BookingID:" occurs in t at position i
MarkerAt(t, i) ==
    /\ i + Len(Marker) - 1 <= Len(t)
    /\ \A k \in 1..Len(Marker) : t[i + k - 1] = Marker[k]

HasMarker(t) == \E i \in 1..Len(t) : MarkerAt(t, i)

\* the text between the first "BookingID:" and the first "|" after it
\* (or the end of the text)
TextAfterMarker(t) ==
    LET first == CHOOSE i \in 1..Len(t) :
                     MarkerAt(t, i) /\ \A j \in 1..(i - 1) : ~MarkerAt(t, j)
        from == first + Len(Marker)
        bars == {j \in from..Len(t) : t[j] = "|"}
        to == IF bars = {} THEN Len(t)
              ELSE (CHOOSE j \in bars : \A k \in bars : j <= k) - 1
    IN  SubSeq(t, from, to)

\* BookingID:<id>|Passenger:<passenger>|Route:<route>|Time:<time>|Fare:<fare>
PayloadOf(b) ==
    Marker \o IntToStr(b.id) \o <<"|">>
        \o <<"P", "a", "s", "s", "e", "n", "g", "e", "r", ":">> \o b.passenger \o <<"|">>
        \o <<"R", "o", "u", "t", "e", ":">> \o b.route \o <<"|">>
        \o <<"T", "i", "m", "e", ":">> \o b.time \o <<"|">>
        \o <<"F", "a", "r", "e", ":">> \o b.fare

\* the bookings an identifier selects
Matching(table, identifier) ==
    {b \in Rows(table) : Affinity(identifier) = SqlInteger(b.id)}

LogsOf(table, id) ==
    {i \in DOMAIN table : table[i].booking_id = SqlInteger(id)}

Appended(old, new) ==
    /\ Len(new) = Len(old) + 1
    /\ SubSeq(new, 1, Len(old)) = old

\* the statuses of `selected` apart, the table is what it was
OnlyStatusOf(selected, old, new) ==
    /\ Len(new) = Len(old)
    /\ \A i \in DOMAIN old :
          /\ [new[i] EXCEPT !.status = "Booked"] = [old[i] EXCEPT !.status = "Booked"]
          /\ old[i] \notin selected => new[i] = old[i]

\* the image handler is about to validate a picture whose first code is t
ImageSees(t) ==
    /\ pc = "image"
    /\ local.chosen
    /\ local.decoded # <<>>
    /\ local.decoded[1] = t

Tickets(frame) == {k \in DOMAIN frame : HasMarker(frame[k])}

FirstTicket(frame) ==
    frame[CHOOSE k \in Tickets(frame) : \A h \in Tickets(frame) : k <= h]

\* the webcam loop is about to scan a frame whose first code with
\* "BookingID:" is t
WebcamSees(t) ==
    /\ pc = "frame"
    /\ local.ret
    /\ Tickets(local.frame) # {}
    /\ FirstTicket(local.frame) = t

-----------------------------------------------------------------------------
(* C1: every Booking is created with status Booked, its status is always  *)
(* Booked or Validated, and a Booking that is Validated stays Validated    *)
(* through every later book, image validation and webcam validation.       *)

C1_StatusLifecycle ==
    /\ [](\A b \in Rows(bookings) : b.status \in {"Booked", "Validated"})
    /\ [][ /\ \A b \in Rows(bookings') :
                (\A a \in Rows(bookings) : a.id # b.id) => b.status = "Booked"
           /\ \A a \in Rows(bookings) :
                a.status = "Validated" =>
                    \E b \in Rows(bookings') :
                        b.id = a.id /\ b.status = "Validated" ]_vars

\* a Validated booking was validated once more
C1_Witness ==
    \E b \in Rows(bookings) :
        /\ b.status = "Validated"
        /\ Cardinality(LogsOf(logs, b.id)) = 2
        /\ msg.kind = "ValidatedWebcam"

-----------------------------------------------------------------------------
(* C2: each validate call on the payload of a stored Booking appends       *)
(* exactly one log row with that booking's id and the channel's method,    *)
(* leaves the existing rows alone and leaves the Booking Validated; so two *)
(* calls on the same payload leave it Validated with two rows.             *)

C2_OneLogPerCall ==
    [][ \A b \in Rows(bookings) :
            (ImageSees(PayloadOf(b)) \/ WebcamSees(PayloadOf(b))) =>
                /\ Appended(logs, logs')
                /\ logs'[Len(logs')].booking_id = SqlInteger(b.id)
                /\ logs'[Len(logs')].method
                       = IF pc = "image" THEN "Image" ELSE "Webcam"
                /\ Cardinality(LogsOf(logs', b.id))
                       = Cardinality(LogsOf(logs, b.id)) + 1
                /\ \E c \in Rows(bookings') :
                       c.id = b.id /\ c.status = "Validated" ]_vars

\* the second booking's payload was validated by one channel, then the other
C2_Witness ==
    /\ Len(bookings) = 2
    /\ bookings[2].status = "Validated"
    /\ bookings[1].status = "Booked"
    /\ Len(logs) = 2
    /\ logs[1].booking_id = SqlInteger(bookings[2].id)
    /\ logs[2].booking_id = SqlInteger(bookings[2].id)
    /\ logs[1].method = "Image"
    /\ logs[2].method = "Webcam"

-----------------------------------------------------------------------------
(* C3: every log row is appended with the id of a Booking that is in the   *)
(* store at that moment.                                                   *)

C3_LogRefersToBooking ==
    [][ \A k \in DOMAIN logs' :
            k > Len(logs) =>
                \E b \in Rows(bookings') :
                    logs'[k].booking_id = SqlInteger(b.id) ]_vars

-----------------------------------------------------------------------------
(* C4: for every raw text that contains "BookingID:", the identifier the   *)
(* validation uses is the text between the first "BookingID:" and the      *)
(* first "|" after it, or the end of the text.                             *)

C4_IdentifierIsTextAfterMarker ==
    [][ (pc = "image" /\ local.chosen /\ local.decoded # <<>>
             /\ HasMarker(local.decoded[1])) =>
            /\ msg'.id = TextAfterMarker(local.decoded[1])
            /\ logs'[Len(logs')].booking_id
                   = Affinity(TextAfterMarker(local.decoded[1])) ]_vars

-----------------------------------------------------------------------------
(* C5: a book call with a non-empty passenger and a selected route stores  *)
(* one Booking with status Booked and shows the payload                    *)
(* BookingID:<id>|Passenger:..|Route:..|Time:..|Fare:.. of that Booking,   *)
(* and the identifier read back from the payload selects that Booking and  *)
(* no other, whatever "|" or "BookingID:" passenger and route contain.     *)

C5_PayloadRoundTrip ==
    [][ (pc = "book" /\ (\E i \in DOMAIN local.entry : local.entry[i] # " ")
             /\ local.selected # <<>>) =>
            LET b == bookings'[Len(bookings')]
            IN  /\ Appended(bookings, bookings')
                /\ b.status = "Booked"
                /\ qr' = PayloadOf(b)
                /\ BookingIdOf(qr') = IntToStr(b.id)
                /\ Matching(bookings', BookingIdOf(qr')) = {b} ]_vars

\* a second ticket whose passenger and route both hold "|" and "BookingID:"
C5_Witness ==
    /\ msg.kind = "Booked"
    /\ Len(bookings) = 2
    /\ HasMarker(bookings[2].passenger)
    /\ HasMarker(bookings[2].route)
    /\ qr = PayloadOf(bookings[2])

-----------------------------------------------------------------------------
(* C6: a raw text without "BookingID:" changes no Booking and appends no   *)
(* log row, on the image path (which reports an invalid QR code) and on    *)
(* the webcam path.                                                        *)

C6_NoMarkerNoChange ==
    [][ /\ (pc = "image" /\ local.chosen /\ local.decoded # <<>>
                /\ ~HasMarker(local.decoded[1])) =>
               /\ UNCHANGED <<bookings, logs, sqlite_seq>>
               /\ msg'.kind = "InvalidQR"
        /\ (pc = "frame" /\ local.ret /\ Tickets(local.frame) = {}) =>
               /\ UNCHANGED <<bookings, logs, sqlite_seq>>
               /\ msg'.kind # "ValidatedWebcam" ]_vars

\* an invalid QR code was reported while a Booking was waiting
C6_Witness ==
    /\ msg.kind = "InvalidQR"
    /\ Len(bookings) = 1
    /\ bookings[1].status = "Booked"
    /\ logs = <<>>

-----------------------------------------------------------------------------
(* C7: book with an empty passenger name or without a selected route       *)
(* warns and leaves bookings and logs unchanged; every stored Booking has  *)
(* a non-empty passenger; a book call that passes the check adds exactly   *)
(* one Booking.                                                            *)

C7_BookValidation ==
    /\ [](\A b \in Rows(bookings) : b.passenger # <<>>)
    /\ [][ pc = "book" =>
              /\ (local.entry = <<>> \/ local.selected = <<>>) =>
                     /\ UNCHANGED <<bookings, logs>>
                     /\ msg'.kind = "Warning"
              /\ msg'.kind # "Warning" =>
                     /\ Appended(bookings, bookings')
                     /\ UNCHANGED logs ]_vars

\* a rejected book call after an accepted one
C7_Witness ==
    /\ msg.kind = "Warning"
    /\ Len(bookings) = 1

-----------------------------------------------------------------------------
(* C8: booking ids are unique and strictly increasing in order of creation *)
(* over the whole life of the store, the database setup at every start of  *)
(* the program included.                                                   *)

C8_IdsIncreaseForever ==
    \A i, j \in DOMAIN issued : i < j => issued[i] < issued[j]

-----------------------------------------------------------------------------
(* C9: a validation changes no Booking except the status of the one the    *)
(* decoded identifier selects, keeps the number of Bookings and every      *)
(* existing log row, and changes no Booking when the identifier selects    *)
(* none.                                                                   *)

C9_ValidationFrame ==
    [][ Len(logs') > Len(logs) =>
            /\ SubSeq(logs', 1, Len(logs)) = logs
            /\ OnlyStatusOf(Matching(bookings, msg'.id), bookings, bookings')
            /\ Matching(bookings, msg'.id) = {} => bookings' = bookings ]_vars

\* an identifier that selects no Booking was validated beside two Bookings
C9_Witness ==
    /\ msg.kind = "ValidatedImage"
    /\ Len(bookings) = 2
    /\ Matching(bookings, msg.id) = {}
    /\ Len(logs) = 1

-----------------------------------------------------------------------------
(* C10: one webcam invocation validates at most once: the first code with  *)
(* "BookingID:" is validated with one Webcam log row and the scan ends;    *)
(* a scan that ends before such a code changes no Booking and no log.      *)

C10_WebcamValidatesOnce ==
    [][ /\ pc = "scan" => UNCHANGED <<bookings, logs>>
        /\ pc = "frame" =>
              IF ~local.ret
              THEN /\ UNCHANGED <<bookings, logs>>
                   /\ pc' = "box"
              ELSE IF Tickets(local.frame) = {}
              THEN /\ UNCHANGED <<bookings, logs>>
                   /\ pc' = IF local.quit THEN "box" ELSE "scan"
              ELSE LET id == BookingIdOf(FirstTicket(local.frame))
                   IN  /\ Appended(logs, logs')
                       /\ logs'[Len(logs')].method = "Webcam"
                       /\ logs'[Len(logs')].booking_id = Affinity(id)
                       /\ OnlyStatusOf(Matching(bookings, id), bookings, bookings')
                       /\ msg' = [kind |-> "ValidatedWebcam", id |-> id]
                       /\ pc' = "box" ]_vars

\* the webcam validated the second booking's ticket and stopped
C10_Witness ==
    /\ msg.kind = "ValidatedWebcam"
    /\ pc = "box"
    /\ Len(logs) = 1
    /\ Len(bookings) = 2
    /\ bookings[2].status = "Validated"
    /\ bookings[1].status = "Booked"

====
